---- MODULE Spec2Model ----
(***************************************************************************)
(* A model of AddresBook_Levenshtein.py: the Record aggregate, the         *)
(* AddressBook store with its identifier allocator (next_id, free_ids),    *)
(* substring search, paging iteration, days_to_birthday and the pickle     *)
(* save/load cycle of main().                                              *)
(*                                                                         *)
(* Python strings are sequences of one-character strings, so that         *)
(* lower(), "in", strip(), replace() and int() are computed, not assumed.  *)
(* Python objects that are compared by identity (Record, Phone, Email)     *)
(* carry an object number: a Record is an index of heap, a Phone or an     *)
(* Email is a record [oid, value].                                         *)
(***************************************************************************)
EXTENDS Integers, Sequences, FiniteSets, TLC

VARIABLES
    heap,      \* the Record objects created so far: heap[r] is the object r
    data,      \* AddressBook.data: the dict, as a sequence of [k, v] in insertion order
    next_id,   \* AddressBook.next_id
    free_ids,  \* AddressBook.free_ids
    current,   \* AddressBook.current, the paging cursor (None before the first __iter__)
    batches,   \* history: the batches __next__ returned since the last __iter__
    dirty,     \* history: the dict was modified since the last __iter__
    now,       \* the clock datetime.now() reads
    file,      \* address_book.pickle: NoFile, or <<the pickled book>>
    pc,        \* where main() is: "start", "menu" or "exited"
    out        \* what the last operation returned, printed or raised

vars == <<heap, data, next_id, free_ids, current, batches, dirty, now, file, pc, out>>

\* ------------------------------------------------------------------ bounds

MaxRecords == 3
MaxId == 2

\* ------------------------------------------------------------ Python values

None == <<>>
NoFile == <<>>
Epoch == [y |-> 2024, m |-> 1, d |-> 1, t |-> 0]
NoMessage == ""
Added == "Dodano wpis z ID"
Some(x) == <<x>>

Upper == <<"A","B","C","D","E","F","G","H","I","J","K","L","M",
           "N","O","P","Q","R","S","T","U","V","W","X","Y","Z">>
LowerCase == <<"a","b","c","d","e","f","g","h","i","j","k","l","m",
               "n","o","p","q","r","s","t","u","v","w","x","y","z">>
Digit == <<"0","1","2","3","4","5","6","7","8","9">>

IsDigit(c) == \E i \in 1..10 : Digit[i] = c
DigitVal(c) == (CHOOSE i \in 1..10 : Digit[i] = c) - 1

\* str.lower(), one character
LowerChar(c) ==
    IF \E i \in 1..26 : Upper[i] = c
    THEN LowerCase[CHOOSE i \in 1..26 : Upper[i] = c]
    ELSE c

\* str.lower()
Lower(s) == [i \in 1..Len(s) |-> LowerChar(s[i])]

\* sub in s
Contains(sub, s) ==
    \E i \in 0..(Len(s) - Len(sub)) : SubSeq(s, i + 1, i + Len(sub)) = sub

IsSpace(c) == c = " "

RECURSIVE LStrip(_)
LStrip(s) == IF s # <<>> /\ IsSpace(Head(s)) THEN LStrip(Tail(s)) ELSE s

RECURSIVE RStrip(_)
RStrip(s) ==
    IF s # <<>> /\ IsSpace(s[Len(s)]) THEN RStrip(SubSeq(s, 1, Len(s) - 1)) ELSE s

\* str.strip()
Strip(s) == RStrip(LStrip(s))

\* str.replace(old, ""), old not empty: every non-overlapping occurrence, left to right
RECURSIVE RemoveAll(_, _)
RemoveAll(s, old) ==
    IF Len(s) < Len(old) THEN s
    ELSE IF SubSeq(s, 1, Len(old)) = old
         THEN RemoveAll(SubSeq(s, Len(old) + 1, Len(s)), old)
         ELSE <<Head(s)>> \o RemoveAll(Tail(s), old)

RECURSIVE DigitsValue(_)
DigitsValue(s) ==
    IF s = <<>> THEN 0
    ELSE 10 * DigitsValue(SubSeq(s, 1, Len(s) - 1)) + DigitVal(s[Len(s)])

AllDigits(s) == \A i \in 1..Len(s) : IsDigit(s[i])

\* int(s): surrounding whitespace and one sign are accepted; anything else
\* but decimal digits raises ValueError (ok = FALSE)
ParseInt(s) ==
    LET t == Strip(s)
        signed == t # <<>> /\ Head(t) \in {"+", "-"}
        body == IF signed THEN Tail(t) ELSE t
    IN  IF body # <<>> /\ AllDigits(body)
        THEN [ok |-> TRUE,
              val |-> IF signed /\ Head(t) = "-" THEN 0 - DigitsValue(body)
                      ELSE DigitsValue(body)]
        ELSE [ok |-> FALSE, val |-> 0]

\* str(n), n >= 0
RECURSIVE IntToStr(_)
IntToStr(n) ==
    IF n < 10 THEN <<Digit[n + 1]>>
    ELSE IntToStr(n \div 10) \o <<Digit[(n % 10) + 1]>>

SetMin(S) == CHOOSE x \in S : \A y \in S : x <= y

\* ------------------------------------------------------------------ dict

Keys(d) == {d[i].k : i \in 1..Len(d)}
Values(d) == [i \in 1..Len(d) |-> d[i].v]
DictGet(d, key) == d[CHOOSE i \in 1..Len(d) : d[i].k = key].v

\* d[key] = val: an existing key keeps its place, a new key goes last
DictSet(d, key, val) ==
    IF key \in Keys(d)
    THEN [i \in 1..Len(d) |-> IF d[i].k = key THEN [k |-> key, v |-> val] ELSE d[i]]
    ELSE Append(d, [k |-> key, v |-> val])

\* del d[key]
DictDel(d, key) ==
    LET keep(e) == e.k # key IN SelectSeq(d, keep)

\* ---------------------------------------------------------------- Record

Names == { <<"A","n","n">> }

NewRecord(name, birthday) ==
    [id |-> None, name |-> [value |-> name], phones |-> <<>>, emails |-> <<>>, birthday |-> birthday]

Refs == 1..Len(heap)

\* Record(Name(name), birthday), while fewer than limit objects exist
CreateRecordUpTo(name, birthday, limit) ==
    /\ pc = "menu"
    /\ Len(heap) < limit
    /\ heap' = Append(heap, NewRecord(name, birthday))
    /\ out' = [op |-> "Record", msg |-> NoMessage]
    /\ UNCHANGED <<data, next_id, free_ids, current, batches, dirty, now, file, pc>>

\* Record(Name(name))
CreateRecord(name) == CreateRecordUpTo(name, None, MaxRecords)

\* -------------------------------------------------------- field validators

Rep(c, n) == [i \in 1..n |-> c]

IsLetter(c) == \E i \in 1..26 : Upper[i] = c \/ LowerCase[i] = c
IsAlnum(c) == IsLetter(c) \/ IsDigit(c)

\* ^\d{9}$
validate_phone(value) == Len(value) = 9 /\ AllDigits(value)

\* ^[a-zA-Z0-9_.+-]+@[a-zA-Z0-9-]+\.[a-zA-Z0-9-.]+$
validate_email(value) ==
    \E i, j \in 1..Len(value) :
        /\ 1 < i /\ i + 1 < j /\ j < Len(value)
        /\ value[i] = "@" /\ value[j] = "."
        /\ \A x \in 1..(i - 1) : IsAlnum(value[x]) \/ value[x] \in {"_", ".", "+", "-"}
        /\ \A x \in (i + 1)..(j - 1) : IsAlnum(value[x]) \/ value[x] = "-"
        /\ \A x \in (j + 1)..Len(value) : IsAlnum(value[x]) \/ value[x] \in {"-", "."}

IsLeap(y) == (y % 4 = 0 /\ y % 100 # 0) \/ y % 400 = 0

DaysInMonth(y, m) ==
    IF m = 2 THEN (IF IsLeap(y) THEN 29 ELSE 28)
    ELSE IF m \in {4, 6, 9, 11} THEN 30 ELSE 31

\* the pieces of s between the "-" signs
RECURSIVE SplitDash(_)
SplitDash(s) ==
    IF \A i \in 1..Len(s) : s[i] # "-" THEN <<s>>
    ELSE LET i == CHOOSE x \in 1..Len(s) : s[x] = "-" /\ \A y \in 1..(x - 1) : s[y] # "-"
         IN  <<SubSeq(s, 1, i - 1)>> \o SplitDash(SubSeq(s, i + 1, Len(s)))

\* datetime.strptime(value, "%Y-%m-%d"): four digits, one or two, one or two,
\* and a date of the calendar; ok = FALSE is ValueError
ParseDate(value) ==
    LET f == SplitDash(value)
        wellFormed ==
            /\ Len(f) = 3
            /\ \A i \in 1..3 : f[i] # <<>> /\ AllDigits(f[i])
            /\ Len(f[1]) = 4 /\ Len(f[2]) <= 2 /\ Len(f[3]) <= 2
        y == DigitsValue(f[1])
        m == DigitsValue(f[2])
        d == DigitsValue(f[3])
    IN  IF wellFormed /\ y >= 1 /\ m \in 1..12 /\ d >= 1 /\ d <= DaysInMonth(y, m)
        THEN [ok |-> TRUE, y |-> y, m |-> m, d |-> d]
        ELSE [ok |-> FALSE, y |-> 0, m |-> 0, d |-> 0]

validate_birthday(value) == ParseDate(value).ok

\* ------------------------------------------------- Record: phones, emails

\* the object numbers of the Phone and Email objects the records hold
UsedOids ==
    UNION {{heap[r].phones[i].oid : i \in 1..Len(heap[r].phones)}
           \cup {heap[r].emails[i].oid : i \in 1..Len(heap[r].emails)} : r \in Refs}

\* the number of a newly constructed object
FreshOid == CHOOSE n \in 1..(Cardinality(UsedOids) + 1) : n \notin UsedOids

\* Phone(value) / Email(value) just constructed
FreshField(value) == [oid |-> FreshOid, value |-> value]

\* list.index(x): Field defines no __eq__, so == is identity; 0 when absent
IndexOf(lst, x) ==
    IF \E i \in 1..Len(lst) : lst[i] = x
    THEN CHOOSE i \in 1..Len(lst) : lst[i] = x /\ \A j \in 1..(i - 1) : lst[j] # x
    ELSE 0

RemoveAt(lst, i) == SubSeq(lst, 1, i - 1) \o SubSeq(lst, i + 1, Len(lst))

\* list.remove(x) as it would be if Field compared by value
ListRemoveByValue(lst, x) ==
    IF \A i \in 1..Len(lst) : lst[i].value # x.value THEN [ok |-> FALSE, lst |-> lst]
    ELSE [ok |-> TRUE,
          lst |-> RemoveAt(lst, CHOOSE i \in 1..Len(lst) :
                                    /\ lst[i].value = x.value
                                    /\ \A j \in 1..(i - 1) : lst[j].value # x.value)]

\* list.remove(x): ok = FALSE is ValueError, the list untouched
ListRemove(lst, x) ==
    IF IndexOf(lst, x) = 0 THEN [ok |-> FALSE, lst |-> lst]
    ELSE [ok |-> TRUE, lst |-> RemoveAt(lst, IndexOf(lst, x))]

add_phone(rec, phone) == [rec EXCEPT !.phones = Append(@, phone)]

remove_phone(rec, phone) ==
    LET res == ListRemove(rec.phones, phone)
    IN  [ok |-> res.ok, rec |-> [rec EXCEPT !.phones = res.lst]]

\* remove_phone, then add_phone unless remove_phone raised
edit_phone(rec, old_phone, new_phone) ==
    LET res == remove_phone(rec, old_phone)
    IN  IF res.ok THEN [ok |-> TRUE, rec |-> add_phone(res.rec, new_phone)]
        ELSE [ok |-> FALSE, rec |-> rec]

add_email(rec, email) == [rec EXCEPT !.emails = Append(@, email)]

remove_email(rec, email) ==
    LET res == ListRemove(rec.emails, email)
    IN  [ok |-> res.ok, rec |-> [rec EXCEPT !.emails = res.lst]]

edit_email(rec, old_email, new_email) ==
    LET res == remove_email(rec, old_email)
    IN  IF res.ok THEN [ok |-> TRUE, rec |-> add_email(res.rec, new_email)]
        ELSE [ok |-> FALSE, rec |-> rec]

edit_name(rec, new_name) == [rec EXCEPT !.name = [value |-> new_name]]

ValueError == "ValueError"

PhoneInputs == { Rep("1", 9), Rep("2", 9), Rep("1", 5) }
ValidPhones == {v \in PhoneInputs : validate_phone(v)}

\* the Phone objects a caller can pass to record r: one the record holds, or
\* one it has just constructed
PhoneObjects(r) ==
    {heap[r].phones[i] : i \in 1..Len(heap[r].phones)}
    \cup {FreshField(v) : v \in ValidPhones}

UnchangedStore == UNCHANGED <<data, next_id, free_ids, current, batches, dirty, now, file, pc>>

\* record.add_phone(phone), for records of at most limit phones
AddPhoneUpTo(r, phone, limit) ==
    /\ pc = "menu"
    /\ Len(heap[r].phones) < limit
    /\ heap' = [heap EXCEPT ![r] = add_phone(@, phone)]
    /\ out' = [op |-> "add_phone", msg |-> NoMessage]
    /\ UnchangedStore

\* record.remove_phone(phone)
RemovePhone(r, phone) ==
    /\ pc = "menu"
    /\ heap' = [heap EXCEPT ![r] = remove_phone(@, phone).rec]
    /\ out' = [op |-> "remove_phone",
               msg |-> IF remove_phone(heap[r], phone).ok THEN NoMessage ELSE ValueError]
    /\ UnchangedStore

\* record.edit_phone(old_phone, Phone(new_value))
EditPhone(r, old_phone, new_value) ==
    /\ pc = "menu"
    /\ validate_phone(new_value)
    /\ heap' = [heap EXCEPT ![r] = edit_phone(@, old_phone, FreshField(new_value)).rec]
    /\ out' = [op |-> "edit_phone",
               msg |-> IF edit_phone(heap[r], old_phone, FreshField(new_value)).ok
                       THEN NoMessage ELSE ValueError]
    /\ UnchangedStore

\* ----------------------------------------------------------- AddressBook

\* the while loop of add_record
RECURSIVE AdvanceNextId(_, _, _)
AdvanceNextId(n, keys, free) ==
    IF n \in keys \/ n \in free THEN AdvanceNextId(n + 1, keys, free) ELSE n

\* add_record that leaves the reused id in the pool
AllocateIdKeepsPool(n, free) ==
    IF free # {}
    THEN [id |-> SetMin(free), next_id |-> n, free_ids |-> free]
    ELSE [id |-> n, next_id |-> n + 1, free_ids |-> free]

\* add_record that reuses the largest free id
AllocateIdLargest(n, free) ==
    LET top == CHOOSE x \in free : \A y \in free : y <= x
    IN  IF free # {}
        THEN [id |-> top, next_id |-> n, free_ids |-> free \ {top}]
        ELSE [id |-> n, next_id |-> n + 1, free_ids |-> free]

\* add_record that forgets to move next_id on
AllocateIdNoIncrement(n, free) ==
    IF free # {}
    THEN [id |-> SetMin(free), next_id |-> n, free_ids |-> free \ {SetMin(free)}]
    ELSE [id |-> n, next_id |-> n, free_ids |-> free]

\* the if/else of add_record: the id given, and the allocator afterwards
AllocateId(n, free) ==
    IF free # {}
    THEN [id |-> SetMin(free), next_id |-> n, free_ids |-> free \ {SetMin(free)}]
    ELSE [id |-> n, next_id |-> n + 1, free_ids |-> free]

\* add_record, while the id it gives is at most limit
add_record(r, limit) ==
    LET n == AdvanceNextId(next_id, Keys(data), free_ids)
        a == AllocateId(n, free_ids)
    IN  /\ a.id <= limit
        /\ heap' = [heap EXCEPT ![r].id = Some(a.id)]
        /\ next_id' = a.next_id
        /\ free_ids' = a.free_ids
        /\ data' = DictSet(data, a.id, r)
        /\ dirty' = TRUE
        /\ out' = [op |-> "add_record", msg |-> Added]

AddRecordUpTo(r, limit) ==
    /\ pc = "menu"
    /\ add_record(r, limit)
    /\ UNCHANGED <<current, batches, now, file, pc>>

AddRecord(r) == AddRecordUpTo(r, MaxId)

\* main() adds a record once, right after it is built
AddNewRecordUpTo(r, limit) ==
    /\ heap[r].id = None
    /\ AddRecordUpTo(r, limit)

AddNewRecord(r) == AddNewRecordUpTo(r, MaxId)

\* main() builds one record at a time: none is waiting to be added
NonePending == \A r \in Refs : heap[r].id # None

NotFoundById == "Nie znaleziono rekordu o podanym ID."
NotFoundByName == "Nie znaleziono pasujacych rekordow."
InvalidId == "Nieprawidlowe ID. Prosze podac liczbe."
Deleted == "Usunieto rekord o ID"

\* a delete that returns the id to the pool whether or not it was live
DeleteIdAlwaysFrees(d, free, id) ==
    [data |-> DictDel(d, id), free_ids |-> free \cup {id},
     msg |-> IF id \in Keys(d) THEN Deleted ELSE NotFoundById]

\* the if/else both delete operations run on the parsed id
DeleteId(d, free, id) ==
    IF id \in Keys(d)
    THEN [data |-> DictDel(d, id), free_ids |-> free \cup {id}, msg |-> Deleted]
    ELSE [data |-> d, free_ids |-> free, msg |-> NotFoundById]

IdPrefix == <<"I","D",":"," ">>

\* the text the user may type where an id is asked for
IdInputsUpTo(limit) == {IntToStr(i) : i \in 1..(limit + 1)} \cup { <<"x">> }
IdInputs == IdInputsUpTo(MaxId)

\* the same, with what delete_record_by_id strips and what int() refuses
IdInputsById ==
    IdInputs \cup { IdPrefix \o <<"2">>, <<" ","1"," ">>, <<"-","1">>, <<>>, <<"1"," ","2">> }

delete_record_by_id(user_input) ==
    LET record_id_str == Strip(RemoveAll(Strip(user_input), IdPrefix))
        p == ParseInt(record_id_str)
        res == DeleteId(data, free_ids, p.val)
    IN  IF p.ok
        THEN /\ data' = res.data
             /\ free_ids' = res.free_ids
             /\ dirty' = (dirty \/ res.msg = Deleted)
             /\ out' = [op |-> "delete_record_by_id", msg |-> res.msg]
        ELSE /\ out' = [op |-> "delete_record_by_id", msg |-> InvalidId]
             /\ UNCHANGED <<data, free_ids, dirty>>

DeleteRecordById(user_input) ==
    /\ pc = "menu"
    /\ delete_record_by_id(user_input)
    /\ UNCHANGED <<heap, next_id, current, batches, now, file, pc>>

\* the (record_id, record) pairs whose name contains name, case-insensitively
find_records_by_name(name) ==
    LET hit(e) == Contains(Lower(name), Lower(heap[e.v].name.value))
    IN  SelectSeq(data, hit)

NameInputs == { <<"a","N">>, <<"z">> }

delete_record(name_to_delete, id_input) ==
    LET matching_records == find_records_by_name(name_to_delete)
        p == ParseInt(id_input)
        res == DeleteId(data, free_ids, p.val)
    IN  IF matching_records = <<>>
        THEN /\ out' = [op |-> "delete_record", msg |-> NotFoundByName]
             /\ UNCHANGED <<data, free_ids, dirty>>
        ELSE IF p.ok
        THEN /\ data' = res.data
             /\ free_ids' = res.free_ids
             /\ dirty' = (dirty \/ res.msg = Deleted)
             /\ out' = [op |-> "delete_record", msg |-> res.msg]
        ELSE /\ out' = [op |-> "delete_record", msg |-> InvalidId]
             /\ UNCHANGED <<data, free_ids, dirty>>

DeleteRecord(name_to_delete, id_input) ==
    /\ pc = "menu"
    /\ delete_record(name_to_delete, id_input)
    /\ UNCHANGED <<heap, next_id, current, batches, now, file, pc>>

\* ------------------------------------------------------- days_to_birthday

\* the time of day has DayTicks values; 0 is midnight
DayTicks == 2

RECURSIVE DaysBeforeMonth(_, _)
DaysBeforeMonth(y, m) ==
    IF m = 1 THEN 0 ELSE DaysBeforeMonth(y, m - 1) + DaysInMonth(y, m - 1)

\* date.toordinal()
Ordinal(y, m, d) ==
    365 * (y - 1) + ((y - 1) \div 4) - ((y - 1) \div 100) + ((y - 1) \div 400)
    + DaysBeforeMonth(y, m) + d

\* datetime.replace(year=y): ValueError when the day does not exist in year y
ReplaceYear(dt, y) ==
    IF dt.d <= DaysInMonth(y, dt.m)
    THEN [ok |-> TRUE, y |-> y, m |-> dt.m, d |-> dt.d, t |-> dt.t]
    ELSE [ok |-> FALSE, y |-> y, m |-> dt.m, d |-> dt.d, t |-> dt.t]

\* a > b, on datetimes
Later(a, b) ==
    \/ Ordinal(a.y, a.m, a.d) > Ordinal(b.y, b.m, b.d)
    \/ Ordinal(a.y, a.m, a.d) = Ordinal(b.y, b.m, b.d) /\ a.t > b.t

\* (a - b).days: timedelta normalises to 0 <= seconds < one day
DeltaDays(a, b) ==
    Ordinal(a.y, a.m, a.d) - Ordinal(b.y, b.m, b.d) - (IF a.t < b.t THEN 1 ELSE 0)

NoBirthday == "Brak daty urodzenia"
Days == "days"

\* days_to_birthday with the clock at today: what it returns or raises
days_to_birthday(rec, today) ==
    IF rec.birthday = None \/ rec.birthday[1].value = <<>>
    THEN [kind |-> NoBirthday, days |-> 0]
    ELSE LET p == ParseDate(rec.birthday[1].value)
             bday == [y |-> p.y, m |-> p.m, d |-> p.d, t |-> 0]
             this_year == ReplaceYear(bday, today.y)
             next_year == ReplaceYear(bday, today.y + 1)
         IN  IF ~this_year.ok THEN [kind |-> ValueError, days |-> 0]
             ELSE IF Later(today, this_year)
                  THEN IF ~next_year.ok THEN [kind |-> ValueError, days |-> 0]
                       ELSE [kind |-> Days, days |-> DeltaDays(next_year, today)]
                  ELSE [kind |-> Days, days |-> DeltaDays(this_year, today)]

DaysToBirthday(r) ==
    /\ pc = "menu"
    /\ out' = [op |-> "days_to_birthday",
               msg |-> days_to_birthday(heap[r], now).kind,
               days |-> days_to_birthday(heap[r], now).days,
               at |-> now,
               birthday |-> heap[r].birthday]
    /\ UNCHANGED <<heap, data, next_id, free_ids, current, batches, dirty, now, file, pc>>

\* Record(Name(name), Birthday(value)): Birthday raises ValueError on a value
\* strptime refuses, and then no Record is built
CreateRecordWithBirthday(name, value, limit) ==
    IF validate_birthday(value)
    THEN CreateRecordUpTo(name, Some([value |-> value]), limit)
    ELSE /\ pc = "menu"
         /\ out' = [op |-> "Birthday", msg |-> ValueError]
         /\ UNCHANGED <<heap, data, next_id, free_ids, current, batches, dirty, now, file, pc>>

\* the dates the clock is read at
Dates ==
    { <<2023, 2, 28>>, <<2023, 12, 31>>, <<2024, 1, 1>>, <<2024, 1, 2>>,
      <<2024, 2, 29>>, <<2024, 3, 1>>, <<2024, 12, 31>>, <<2025, 1, 1>> }

Instants == {[y |-> x[1], m |-> x[2], d |-> x[3], t |-> t] : x \in Dates, t \in 0..(DayTicks - 1)}

\* time passes
ClockAdvance ==
    /\ \E later \in Instants : Later(later, now) /\ now' = later
    /\ UNCHANGED <<heap, data, next_id, free_ids, current, batches, dirty, file, pc, out>>

\* --------------------------------------------------- __iter__, __next__

PageSize == 5

StopIteration == "StopIteration"
AttributeError == "AttributeError"
Batch == "batch"

\* list(self.data.values())[current:current+5]
Page(values, cursor) ==
    SubSeq(values, cursor + 1, IF cursor + PageSize < Len(values) THEN cursor + PageSize ELSE Len(values))

\* a cursor that moves one short of a page
AdvanceShort(cursor) == cursor + PageSize - 1

\* self.current += 5
Advance(cursor) == cursor + PageSize

\* iter(book)
Iter ==
    /\ pc = "menu"
    /\ current' = Some(0)
    /\ batches' = <<>>
    /\ dirty' = FALSE
    /\ out' = [op |-> "__iter__", msg |-> NoMessage]
    /\ UNCHANGED <<heap, data, next_id, free_ids, now, file, pc>>

\* next(book): before any iter(book) the attribute current does not exist
NextBatch ==
    /\ pc = "menu"
    /\ IF current = None
       THEN /\ out' = [op |-> "__next__", msg |-> AttributeError]
            /\ UNCHANGED <<current, batches>>
       ELSE IF current[1] < Len(data)
       THEN /\ batches' = Append(batches, Page(Values(data), current[1]))
            /\ current' = Some(Advance(current[1]))
            /\ out' = [op |-> "__next__", msg |-> Batch]
       ELSE /\ out' = [op |-> "__next__", msg |-> StopIteration]
            /\ UNCHANGED <<current, batches>>
    /\ UNCHANGED <<heap, data, next_id, free_ids, dirty, now, file, pc>>

\* ------------------------------------------------------------ find_record

\* what one pass of the for loop appends for record r
FoundFor(r, search_term) ==
    LET rec == heap[r]
        byName == Contains(Lower(search_term), Lower(rec.name.value))
        byPhone == \E i \in 1..Len(rec.phones) : Contains(search_term, rec.phones[i].value)
        byEmail == \E i \in 1..Len(rec.emails) : Contains(search_term, rec.emails[i].value)
    IN  IF byName THEN <<r>>
        ELSE (IF byPhone THEN <<r>> ELSE <<>>) \o (IF byEmail THEN <<r>> ELSE <<>>)

RECURSIVE FindLoop(_, _)
FindLoop(records, search_term) ==
    IF records = <<>> THEN <<>>
    ELSE FoundFor(Head(records), search_term) \o FindLoop(Tail(records), search_term)

find_record(search_term) == FindLoop(Values(data), search_term)

NoneFound == "Nie znaleziono pasujacych rekordow."
Found == "Znalezione rekordy:"

\* main(), choice "4"
FindRecord(search_term) ==
    /\ pc = "menu"
    /\ out' = [op |-> "find_record",
               msg |-> IF find_record(search_term) = <<>> THEN NoneFound ELSE Found,
               found |-> find_record(search_term)]
    /\ UNCHANGED <<heap, data, next_id, free_ids, current, batches, dirty, now, file, pc>>

\* record.add_email(Email(value)), for records of at most limit e-mails
AddEmailUpTo(r, value, limit) ==
    /\ pc = "menu"
    /\ validate_email(value)
    /\ Len(heap[r].emails) < limit
    /\ heap' = [heap EXCEPT ![r] = add_email(@, FreshField(value))]
    /\ out' = [op |-> "add_email", msg |-> NoMessage]
    /\ UnchangedStore

\* ------------------------------------------------------------ edit_record

BadNumber == "Nieprawidlowa wartosc. Wprowadz numer."
BadChoice == "Nieprawidlowy numer rekordu."
EditDone == "Edycja zakonczona pomyslnie."

\* the record edit_record works on after the name and the choice are typed:
\* its heap index, and 0 with the message printed when it returns early
EditTarget(name_to_edit, choice) ==
    LET matching_records == find_records_by_name(name_to_edit)
        p == ParseInt(choice)
    IN  IF matching_records = <<>> THEN [ref |-> 0, msg |-> NotFoundByName]
        ELSE IF Len(matching_records) > 1
        THEN IF ~p.ok THEN [ref |-> 0, msg |-> BadNumber]
             ELSE IF 0 < p.val /\ p.val <= Len(matching_records)
                  THEN [ref |-> matching_records[p.val].v, msg |-> EditDone]
                  ELSE [ref |-> 0, msg |-> BadChoice]
        ELSE [ref |-> matching_records[1].v, msg |-> EditDone]

\* an index typed for a list of n entries: the 1-based position, 0 when the
\* text is blank, no number or out of range
TypedIndex(text, n) ==
    LET p == ParseInt(text)
    IN  IF Strip(text) # <<>> /\ p.ok /\ 0 <= p.val - 1 /\ p.val - 1 < n THEN p.val ELSE 0

FreshOidAfter(used) == CHOOSE n \in 1..(Cardinality(used) + 1) : n \notin used

\* the name step of edit_record
EditedName(rec, new_name_input) ==
    IF Strip(new_name_input) # <<>> THEN edit_name(rec, new_name_input) ELSE rec

\* the phone step: Phone(new_phone_number) is built before edit_phone runs,
\* and its ValueError is caught
EditedPhones(rec, phone_to_edit, new_phone_number) ==
    LET idx == TypedIndex(phone_to_edit, Len(rec.phones))
    IN  IF rec.phones # <<>> /\ idx # 0 /\ validate_phone(new_phone_number)
        THEN edit_phone(rec, rec.phones[idx], FreshField(new_phone_number)).rec
        ELSE rec

\* the e-mail step
EditedEmails(rec, email_to_edit, new_email_address) ==
    LET idx == TypedIndex(email_to_edit, Len(rec.emails))
        email == [oid |-> FreshOidAfter(UsedOids \cup {FreshOid}), value |-> new_email_address]
    IN  IF rec.emails # <<>> /\ idx # 0 /\ validate_email(new_email_address)
        THEN edit_email(rec, rec.emails[idx], email).rec
        ELSE rec

\* the birthday step
EditedBirthday(rec, new_birthday) ==
    IF rec.birthday # None /\ Strip(new_birthday) # <<>> /\ validate_birthday(new_birthday)
    THEN [rec EXCEPT !.birthday = Some([value |-> new_birthday])]
    ELSE rec

edit_record(name_to_edit, choice, new_name_input, phone_to_edit, new_phone_number, email_to_edit, new_email_address, new_birthday) ==
    LET t == EditTarget(name_to_edit, choice)
        rec == EditedBirthday(
                   EditedEmails(
                       EditedPhones(EditedName(heap[t.ref], new_name_input),
                                    phone_to_edit, new_phone_number),
                       email_to_edit, new_email_address),
                   new_birthday)
    IN  /\ heap' = IF t.ref = 0 THEN heap ELSE [heap EXCEPT ![t.ref] = rec]
        /\ out' = [op |-> "edit_record", msg |-> t.msg]

ChoiceInputs == { <<"1">>, <<"2">>, <<"9">>, <<"x">> }
NewNameInputs == { <<>>, <<"B","o">> }
IndexInputs == { <<>>, <<"1">>, <<"2">>, <<"9">>, <<"x">> }
EmailInputs == { <<"a","1","@","b",".","c">>, <<"x","@","y",".","z">>, <<"a","@","b">> }
BirthdayInputs ==
    { <<"2","0","0","0","-","0","1","-","0","1">>,
      <<"2","0","0","0","-","0","2","-","2","9">>,
      <<"2","0","0","1","-","0","2","-","2","9">>,
      <<"1","9","9","9","-","1","2","-","3","1">> }

Blank == { <<>> }

\* what edit_record goes on to ask, given what was typed so far
AskedChoice(n) == IF Len(find_records_by_name(n)) > 1 THEN ChoiceInputs ELSE Blank

\* main(), choice "2", with the values typed drawn from the given sets
EditRecordWith(names, phones, emails, birthdays) ==
    /\ pc = "menu"
    /\ \E n \in NameInputs : \E c \in AskedChoice(n) :
       LET t == EditTarget(n, c).ref
           has_phones == t # 0 /\ heap[t].phones # <<>>
           has_emails == t # 0 /\ heap[t].emails # <<>>
           has_birthday == t # 0 /\ heap[t].birthday # None
       IN  \E nn \in (IF t # 0 THEN names ELSE Blank) :
           \E ps \in (IF has_phones THEN IndexInputs ELSE Blank) :
           \E np \in (IF has_phones /\ TypedIndex(ps, Len(heap[t].phones)) # 0 THEN phones ELSE Blank) :
           \E es \in (IF has_emails THEN IndexInputs ELSE Blank) :
           \E ne \in (IF has_emails /\ TypedIndex(es, Len(heap[t].emails)) # 0 THEN emails ELSE Blank) :
           \E nb \in (IF has_birthday THEN birthdays ELSE Blank) :
               edit_record(n, c, nn, ps, np, es, ne, nb)
    /\ UnchangedStore

EditRecord == EditRecordWith(NewNameInputs, PhoneInputs, EmailInputs, BirthdayInputs \cup Blank)

\* ------------------------------------------------------ pickle, main()

\* the number x gets when the entries of seq are numbered in the order in
\* which they first appear (pickle's memo)
Slot(seq, x) ==
    LET first == CHOOSE i \in 1..Len(seq) : seq[i] = x /\ \A j \in 1..(i - 1) : seq[j] # x
    IN  Cardinality({seq[j] : j \in 1..first})

\* the entries of seq, each once, in the order in which they first appear
RECURSIVE Distinct(_)
Distinct(seq) ==
    IF seq = <<>> THEN <<>>
    ELSE LET front == Distinct(SubSeq(seq, 1, Len(seq) - 1))
             last == seq[Len(seq)]
         IN  IF \E i \in 1..Len(front) : front[i] = last THEN front ELSE Append(front, last)

\* a set as the list pickle writes for it
RECURSIVE SetToSeq(_)
SetToSeq(S) == IF S = {} THEN <<>> ELSE <<SetMin(S)>> \o SetToSeq(S \ {SetMin(S)})

SeqToSet(seq) == {seq[i] : i \in 1..Len(seq)}

\* the Phone and Email objects of the records, in the order pickle meets them
RECURSIVE FieldOids(_)
FieldOids(records) ==
    IF records = <<>> THEN <<>>
    ELSE [i \in 1..Len(Head(records).phones) |-> Head(records).phones[i].oid]
         \o [i \in 1..Len(Head(records).emails) |-> Head(records).emails[i].oid]
         \o FieldOids(Tail(records))

\* pickle.dumps(book): the book's __dict__; every Record reachable from data
\* is written once, where it is first met, and referred to by its slot after
\* that
Pickle(h, d, n, free, cur) ==
    LET refs == Distinct(Values(d))
    IN  [records |-> [i \in 1..Len(refs) |-> h[refs[i]]],
         items |-> [i \in 1..Len(d) |-> [k |-> d[i].k, slot |-> Slot(Values(d), d[i].v)]],
         next_id |-> n,
         free_ids |-> SetToSeq(free),
         current |-> cur]

\* pickle.loads(blob): new objects, numbered as they are built, with the
\* state that was written
UnpickleHeap(blob) ==
    LET oids == FieldOids(blob.records)
        renew(lst) == [i \in 1..Len(lst) |-> [lst[i] EXCEPT !.oid = Slot(oids, @)]]
    IN  [i \in 1..Len(blob.records) |->
            [blob.records[i] EXCEPT !.phones = renew(@), !.emails = renew(@)]]

UnpickleData(blob) == [i \in 1..Len(blob.items) |-> [k |-> blob.items[i].k, v |-> blob.items[i].slot]]
UnpickleNextIdFresh(blob) == 1
UnpickleNextId(blob) == blob.next_id
UnpickleFreeIds(blob) == SeqToSet(blob.free_ids)

Saved == "Zapisano dane. Do widzenia!"
Loaded == "Wczytano dane z poprzedniej sesji."
NoData == "Brak pliku z danymi. Rozpoczynanie nowej ksiazki adresowej."

\* main(), choice "6": pickle.dump(book, file); break
Save ==
    /\ pc = "menu"
    /\ file' = Some(Pickle(heap, data, next_id, free_ids, current))
    /\ pc' = "exited"
    /\ out' = [op |-> "save", msg |-> Saved]
    /\ UNCHANGED <<heap, data, next_id, free_ids, current, batches, dirty, now>>

\* main() starts: book = AddressBook(), then pickle.load(file) unless the
\* file is missing
Start ==
    /\ pc = "start"
    /\ pc' = "menu"
    /\ IF file = NoFile
       THEN /\ heap' = <<>>
            /\ data' = <<>>
            /\ next_id' = 1
            /\ free_ids' = {}
            /\ current' = None
            /\ out' = [op |-> "load", msg |-> NoData]
       ELSE /\ heap' = UnpickleHeap(file[1])
            /\ data' = UnpickleData(file[1])
            /\ next_id' = UnpickleNextId(file[1])
            /\ free_ids' = UnpickleFreeIds(file[1])
            /\ current' = file[1].current
            /\ out' = [op |-> "load", msg |-> Loaded]
    /\ batches' = <<>>
    /\ dirty' = FALSE
    /\ UNCHANGED <<now, file>>

\* ------------------------------------------------------------------ store


EmptyBook ==
    /\ data = <<>>
    /\ next_id = 1
    /\ free_ids = {}
    /\ current = None
    /\ batches = <<>>
    /\ dirty = FALSE
    /\ file = NoFile
    /\ pc = "menu"
    /\ out = [op |-> "none", msg |-> NoMessage]

Init ==
    /\ heap = <<>>
    /\ now = Epoch
    /\ EmptyBook

Next ==
    \/ \E name \in Names : CreateRecord(name)
    \/ \E r \in Refs : AddRecord(r)
    \/ \E s \in IdInputsById : DeleteRecordById(s)
    \/ \E n \in NameInputs, s \in IdInputs : DeleteRecord(n, s)

Spec == Init /\ [][Next]_vars

\* ------------------------------------------------------ days to birthday

MaxBirthdayRecords == 1

InitBirthday ==
    /\ heap = <<>>
    /\ now \in Instants
    /\ EmptyBook

NextBirthday ==
    \/ \E name \in Names, b \in BirthdayInputs :
          CreateRecordWithBirthday(name, b, MaxBirthdayRecords)
    \/ \E name \in Names : CreateRecordUpTo(name, None, MaxBirthdayRecords)
    \/ ClockAdvance
    \/ \E r \in Refs : DaysToBirthday(r)

SpecBirthday == InitBirthday /\ [][NextBirthday]_vars

\* C6 (as claimed): for any record with a birthday and any reference time,
\* daysToBirthday returns an integer, and it is not negative.
C6_ReturnsDayCount ==
    (out.op = "days_to_birthday" /\ out.birthday # None) =>
        (out.msg = Days /\ out.days >= 0)

\* ---------------------------------------------------------- persistence

MaxSavedRecords == 2
MaxSavedId == 5

\* a book an earlier session left: ids 1, 3 and 5 live, 2 and 4 deleted
ExampleHeap ==
    << [NewRecord(<<"A","n","n">>, None)
            EXCEPT !.id = Some(1),
                   !.phones = <<[oid |-> 1, value |-> Rep("1", 9)], [oid |-> 2, value |-> Rep("2", 9)]>>],
       [NewRecord(<<"A","n","n">>, None)
            EXCEPT !.id = Some(3),
                   !.emails = <<[oid |-> 3, value |-> <<"a","1","@","b",".","c">>]>>],
       [NewRecord(<<"A","n","n">>, Some([value |-> <<"2","0","0","0","-","0","1","-","0","1">>]))
            EXCEPT !.id = Some(5)] >>
ExampleData == <<[k |-> 1, v |-> 1], [k |-> 3, v |-> 2], [k |-> 5, v |-> 3]>>
ExampleFile == Some(Pickle(ExampleHeap, ExampleData, 6, {2, 4}, None))

\* what is typed in edit_record in these sessions
SavedPhoneInputs == { Rep("2", 9), Rep("1", 5) }
SavedEmailInputs == { <<"x","@","y",".","z">> }
SavedBirthdayInputs == { <<>>, <<"1","9","9","9","-","1","2","-","3","1">>, <<"2","0","0","1","-","0","2","-","2","9">> }

\* main() is about to start; the file is missing or holds the book above
InitPersist ==
    /\ heap = <<>>
    /\ now = Epoch
    /\ data = <<>>
    /\ next_id = 1
    /\ free_ids = {}
    /\ current = None
    /\ batches = <<>>
    /\ dirty = FALSE
    /\ file \in {NoFile, ExampleFile}
    /\ pc = "start"
    /\ out = [op |-> "none", msg |-> NoMessage]

NextPersist ==
    \/ Start
    \/ \E name \in Names : NonePending /\ CreateRecordUpTo(name, None, MaxSavedRecords)
    \/ \E r \in Refs : AddNewRecordUpTo(r, MaxSavedId)
    \/ \E n \in NameInputs, s \in IdInputsUpTo(MaxSavedId) : DeleteRecord(n, s)
    \/ EditRecordWith(NewNameInputs, SavedPhoneInputs, SavedEmailInputs, SavedBirthdayInputs)
    \/ Save

SpecPersist == InitPersist /\ [][NextPersist]_vars

\* what a record holds: its id, name, phone numbers, e-mails and birthday
RecordView(r) ==
    [id |-> r.id,
     name |-> r.name.value,
     phones |-> [i \in 1..Len(r.phones) |-> r.phones[i].value],
     emails |-> [i \in 1..Len(r.emails) |-> r.emails[i].value],
     birthday |-> r.birthday]

\* what a book holds: the mapping from ids to records in its order, the next
\* candidate id and the free ids
BookViewOf(h, d, n, free) ==
    [keys |-> [i \in 1..Len(d) |-> d[i].k],
     records |-> [i \in 1..Len(d) |-> RecordView(h[d[i].v])],
     next_id |-> n,
     free_ids |-> free]

BookView == BookViewOf(heap, data, next_id, free_ids)
LoadedView(blob) ==
    BookViewOf(UnpickleHeap(blob), UnpickleData(blob), UnpickleNextId(blob), UnpickleFreeIds(blob))

MaxPagedRecords == 10
MaxPagedDeletes == 1

\* the records that were deleted: they have an id and the book does not hold them
DeletedRecords == {r \in Refs : heap[r].id # None /\ \A i \in 1..Len(data) : data[i].v # r}

NextPaging ==
    \/ \E name \in Names : NonePending /\ CreateRecordUpTo(name, None, MaxPagedRecords)
    \/ \E r \in Refs : AddNewRecordUpTo(r, MaxPagedRecords)
    \/ \E i \in 1..MaxPagedRecords :
          Cardinality(DeletedRecords) < MaxPagedDeletes /\ DeleteRecordById(IntToStr(i))
    \/ Iter
    \/ NextBatch

SpecPaging == Init /\ [][NextPaging]_vars

RECURSIVE Flatten(_)
Flatten(seqs) == IF seqs = <<>> THEN <<>> ELSE Head(seqs) \o Flatten(Tail(seqs))

\* ceil(n / 5)
PagesOf(n) == (n + PageSize - 1) \div PageSize

Prefix(seq, n) == SubSeq(seq, 1, IF n < Len(seq) THEN n ELSE Len(seq))

\* C10: while the store is not modified, an iteration begun by __iter__
\* yields ceil(n/5) batches, each non-empty and of at most 5 records, all but
\* the last of exactly 5, whose concatenation is the records in mapping order,
\* and then stops (at once for n = 0, with no empty batch for n a multiple of
\* 5); __iter__ at any point makes the next batch the first 5 records again.
C10_Paging ==
    /\ []((current # None /\ ~dirty) =>
            /\ current[1] = PageSize * Len(batches)
            /\ Len(batches) <= PagesOf(Len(data))
            /\ Flatten(batches) = Prefix(Values(data), current[1])
            /\ \A i \in 1..Len(batches) :
                  /\ batches[i] # <<>>
                  /\ Len(batches[i]) <= PageSize
                  /\ i < Len(batches) => Len(batches[i]) = PageSize
            /\ (out.op = "__next__" /\ out.msg = StopIteration) =>
                  /\ Len(batches) = PagesOf(Len(data))
                  /\ Flatten(batches) = Values(data))
    /\ [][/\ (NextBatch /\ current # None /\ ~dirty) =>
                IF Len(batches) = PagesOf(Len(data))
                THEN out'.msg = StopIteration /\ batches' = batches
                ELSE out'.msg = Batch /\ Len(batches') = Len(batches) + 1
          /\ Iter => (current' = Some(0) /\ batches' = <<>>)
          /\ (NextBatch /\ current = Some(0) /\ data # <<>>) =>
                batches' = <<Prefix(Values(data), PageSize)>>]_vars

\* ten records were paged to the end without a change: two batches, then
\* StopIteration
C10_Witness ==
    /\ out.op = "__next__"
    /\ out.msg = StopIteration
    /\ ~dirty
    /\ Len(data) = 2 * PageSize
    /\ Len(batches) = 2

\* ----------------------------------------------------------------- find

MaxFindRecords == 2
MaxFindFields == 1

FindNames == { <<"A","n","n">>, <<"B","o">> }
SearchTerms == { <<"1">>, <<"a","N">>, <<"b">>, <<"B">>, <<"@">>, <<>> }

NextFind ==
    \/ \E name \in FindNames : CreateRecordUpTo(name, None, MaxFindRecords)
    \/ \E r \in Refs : AddNewRecord(r)
    \/ \E r \in Refs, v \in ValidPhones : AddPhoneUpTo(r, FreshField(v), MaxFindFields)
    \/ \E r \in Refs, v \in EmailInputs : AddEmailUpTo(r, v, MaxFindFields)
    \/ \E term \in SearchTerms : FindRecord(term)

SpecFind == Init /\ [][NextFind]_vars

\* term occurs in the Name whatever the case, or as it is in a Phone or Email
Matches(r, term) ==
    \/ Contains(Lower(term), Lower(heap[r].name.value))
    \/ \E i \in 1..Len(heap[r].phones) : Contains(term, heap[r].phones[i].value)
    \/ \E i \in 1..Len(heap[r].emails) : Contains(term, heap[r].emails[i].value)

\* C8 (as claimed): findRecord(term) returns exactly the matching records,
\* each once and in mapping order; a record that matches through a phone and
\* an email but not its name appears once.
C8_EachMatchOnce ==
    [][\A term \in SearchTerms :
        FindRecord(term) =>
            LET matching(r) == Matches(r, term)
            IN  out'.found = SelectSeq(Values(data), matching)]_vars

\* ------------------------------------------------------------ edit phone

MaxPhones == 2

\* one Record, just constructed, and an empty book
InitPhone ==
    /\ now = Epoch
    /\ EmptyBook
    /\ \E name \in Names : heap = <<NewRecord(name, None)>>

NextPhone ==
    \/ \E r \in Refs : AddNewRecord(r)
    \/ \E r \in Refs : \E phone \in PhoneObjects(r) : AddPhoneUpTo(r, phone, MaxPhones)
    \/ \E r \in Refs : \E phone \in PhoneObjects(r) : RemovePhone(r, phone)
    \/ \E r \in Refs : \E old \in PhoneObjects(r), v \in PhoneInputs : EditPhone(r, old, v)
    \/ EditRecord

SpecPhone == InitPhone /\ [][NextPhone]_vars

FieldValues(lst) == [i \in 1..Len(lst) |-> lst[i].value]
FirstWithValue(lst, v) ==
    CHOOSE i \in 1..Len(lst) : lst[i].value = v /\ \A j \in 1..(i - 1) : lst[j].value # v

LiveIds == Keys(data)

\* C1: after every addRecord and every delete (by id or by name, with a
\* present, an absent or a non-numeric id) the free-id pool and the set of
\* live identifiers are disjoint.
C1_FreeLiveDisjoint == free_ids \cap LiveIds = {}

\* an id was deleted and a later addRecord left both a live id and a free id
C1_Witness ==
    /\ out.op = "add_record"
    /\ free_ids # {}
    /\ LiveIds # {}

\* C2: addRecord with a non-empty pool gives the record the minimum of the
\* pool, removes exactly that id from the pool and leaves next_id alone; with
\* an empty pool it gives next_id and then increments it by one. (Insert A,
\* insert B, delete A, insert C is the case free_ids = {1}, next_id = 3: C
\* gets 1.)
C2_SmallestFreeFirst ==
    [][\A r \in Refs :
        AddRecord(r) =>
            IF free_ids # {}
            THEN /\ heap'[r].id = Some(SetMin(free_ids))
                 /\ free_ids' = free_ids \ {SetMin(free_ids)}
                 /\ next_id' = next_id
                 /\ DictGet(data', SetMin(free_ids)) = r
            ELSE /\ heap'[r].id = Some(next_id)
                 /\ next_id' = next_id + 1
                 /\ free_ids' = {}
                 /\ DictGet(data', next_id) = r]_vars

\* A (id 1) and B (id 2) were inserted, A deleted, and a third record C
\* inserted: C sits last in the mapping, under id 1, and next_id is still 3
C2_Witness ==
    /\ out.op = "add_record"
    /\ Len(data) = 2
    /\ data[1].k = 2 /\ data[2].k = 1
    /\ data[2].v = 3 /\ data[1].v = 2
    /\ heap[3].id = Some(1)
    /\ next_id = 3
    /\ free_ids = {}

NotLive(id_input) == ParseInt(id_input).ok /\ ParseInt(id_input).val \notin LiveIds
ByIdText(user_input) == Strip(RemoveAll(Strip(user_input), IdPrefix))

\* C3: a delete whose identifier is not live (never allocated, sitting in
\* the pool, or >= next_id) leaves the mapping, next_id and free_ids unchanged
\* and reports "not found"; the id is not added to the pool.
C3_DeleteAbsentIsNoOp ==
    [][/\ \A s \in IdInputsById :
            (DeleteRecordById(s) /\ NotLive(ByIdText(s))) =>
                /\ UNCHANGED <<data, next_id, free_ids, heap>>
                /\ out'.msg = NotFoundById
       /\ \A n \in NameInputs, s \in IdInputs :
            (DeleteRecord(n, s) /\ NotLive(s)) =>
                /\ UNCHANGED <<data, next_id, free_ids, heap>>
                /\ out'.msg \in {NotFoundById, NotFoundByName}]_vars

\* a delete of an id that is not live was answered "not found" while other
\* ids are live and the pool is not empty
C3_Witness ==
    /\ out.op \in {"delete_record_by_id", "delete_record"}
    /\ out.msg = NotFoundById
    /\ free_ids # {}
    /\ LiveIds # {}

\* C7 (as claimed): every live id k has mapping[k].id = k, and no Record is
\* held in the mapping under two identifiers.
C7_IdMatchesKey ==
    /\ \A i \in 1..Len(data) : heap[data[i].v].id = Some(data[i].k)
    /\ \A i, j \in 1..Len(data) : data[i].v = data[j].v => i = j

\* C9: next_id is greater than every live and every free id, so the loop of
\* addRecord never advances it; addRecord never assigns a live id, overwrites
\* no entry and makes the mapping one entry longer.
C9_NextIdAboveAll ==
    /\ [](/\ \A k \in LiveIds \cup free_ids : k < next_id
          /\ AdvanceNextId(next_id, LiveIds, free_ids) = next_id)
    /\ [][\A r \in Refs :
            AddRecord(r) =>
                /\ \E k \in LiveIds' \ LiveIds : heap'[r].id = Some(k)
                /\ Len(data') = Len(data) + 1
                /\ SubSeq(data', 1, Len(data)) = data]_vars

\* an addRecord took the forward id 2 while id 1 was live
C9_Witness ==
    /\ out.op = "add_record"
    /\ LiveIds = {1, 2}
    /\ next_id = 3
    /\ data[2].k = 2

====
